---- MODULE Spec2Model ----
(***************************************************************************)
(* Model of the Vendora AI service core: the Preference Vector Engine      *)
(* (services/recommendation_service.py over services/qdrant_service.py)    *)
(* and the Agentic Retrieval Pipeline (services/chat_service.py).          *)
(*                                                                         *)
(* Numbers.  Vector components are fixed-point integers in units of        *)
(* 1/Scale (Scale stands for 1.0).  The decay blend is computed exactly on *)
(* integer numerators; the division by the norm rounds to the nearest      *)
(* representable component, as a floating-point division does.             *)
(*                                                                         *)
(* Python values.  None for a vector is the empty tuple, a falsy           *)
(* product_id (None or 0) is 0, a falsy sku (None or "") is "".            *)
(***************************************************************************)
EXTENDS Integers, Sequences, FiniteSets, TLC

\* ---------------------------------------------------------------- bounds
Dim == 2
Scale == 100
MaxEvents == 2
MaxFaults == 1

\* ------------------------------------------------------- settings.py
DecayPct == 95
ViewWeight == 1
AddToCartWeight == 2
OrderWeight == 5
UpdateScalePct == 5

VARIABLES
    product_catalog,   \* Qdrant collection product_catalog: id -> point
    knowledge_base,    \* Qdrant collection knowledge_base: id -> point
    user_vectors,      \* Qdrant collection user_vectors: user id -> vector
    calls,             \* the track_interaction calls in flight
    events,            \* number of track_interaction calls started
    faults,            \* number of index requests that raised
    llm_available,     \* ChatService.llm_available
    chat,              \* the chat request being served
    ingest,            \* the last request to the ingestion endpoints
    recommend          \* the recommendation request being served

indexVars == <<product_catalog, knowledge_base>>

trackVars == <<user_vectors, calls, events, faults>>

chatVars == <<llm_available, chat>>

ingestVars == <<ingest>>

recommendVars == <<recommend>>

vars == <<indexVars, trackVars, chatVars, ingestVars, recommendVars>>

\* ------------------------------------------------------------ vectors
None == <<>>

Idx == 1..Dim

Axis(k, c) == [i \in Idx |-> IF i = k THEN c ELSE 0]

ZeroVector == [i \in Idx |-> 0]

RECURSIVE SumSqTo(_, _)
SumSqTo(v, n) == IF n = 0 THEN 0 ELSE v[n] * v[n] + SumSqTo(v, n - 1)

SumSq(v) == SumSqTo(v, Len(v))

RECURSIVE SqrtBetween(_, _, _)
SqrtBetween(x, lo, hi) ==
    IF lo >= hi THEN lo
    ELSE LET mid == (lo + hi + 1) \div 2
         IN  IF mid * mid <= x THEN SqrtBetween(x, mid, hi)
                               ELSE SqrtBetween(x, lo, mid - 1)

\* floor of the square root; 46340 is the largest root of a 32-bit integer
ISqrt(x) == SqrtBetween(x, 0, IF x < 65536 THEN 255 ELSE 46340)

RECURSIVE Gcd(_, _)
Gcd(a, b) == IF b = 0 THEN a ELSE Gcd(b, a % b)

RoundDiv(a, n) == (2 * a + n) \div (2 * n)

\* ------------------------------------------------ RecommendationService
Actions == {"VIEW", "ADD_TO_CART", "ORDER"}

weights(action) ==
    CASE action = "VIEW" -> ViewWeight
      [] action = "ADD_TO_CART" -> AddToCartWeight
      [] action = "ORDER" -> OrderWeight
      [] OTHER -> 1

\* self.decay and update_factor as numerators over 10000
decay == DecayPct * 100

update_factor(action) == (100 - DecayPct) * weights(action) * UpdateScalePct

\* user_vector * decay + product_vector * update_factor, as the numerators
\* of a common denominator (10000 / gcd)
Blend(user_vector, product_vector, action) ==
    LET g == Gcd(decay, update_factor(action))
    IN  [i \in Idx |-> (decay \div g) * user_vector[i]
                        + (update_factor(action) \div g) * product_vector[i]]

\* np.linalg.norm of the blend numerators
Norm(v) == ISqrt(SumSq(v))

NormalizeSkipped(v) == v

\* if norm > 0: user_vector = user_vector / norm
Normalize(v) ==
    LET norm == Norm(v)
    IN  IF norm > 0 THEN [i \in Idx |-> RoundDiv(v[i] * Scale, norm)]
        ELSE v

DecayUpdateConcatenated(user_vector, product_vector, action) ==
    user_vector \o product_vector

DecayUpdate(user_vector, product_vector, action) ==
    Normalize(Blend(user_vector, product_vector, action))

NewUserVectorAlwaysBlend(user_vector, product_vector, action) ==
    DecayUpdate(IF user_vector = None THEN ZeroVector ELSE user_vector,
                product_vector, action)

\* lines 75-93: first interaction or weighted decay
NewUserVector(user_vector, product_vector, action) ==
    IF user_vector = None THEN product_vector
    ELSE DecayUpdate(user_vector, product_vector, action)

\* ------------------------------------------------------- index contents
UserIds == {7, 999}

\* track_interaction calls served at the same time.  The service takes no
\* lock and the index is a store of its own, reached by every worker of
\* the service, so each request to the index is one step of a call
Calls == {1, 2}

\* product_catalog as ingested: point id -> vector and payload sku
InitialCatalog ==
    (42 :> [vector |-> Axis(1, Scale), sku |-> "A", product_id |-> 42,
            category |-> "electronics", supplier_id |-> 55])
    @@ (43 :> [vector |-> Axis(Dim, Scale \div 2), sku |-> "B",
               product_id |-> 43,
               category |-> "electronics", supplier_id |-> 56])
    @@ (44 :> [vector |-> ZeroVector, sku |-> "C", product_id |-> 44,
               category |-> "footwear", supplier_id |-> 55])

\* knowledge_base as ingested: point id -> vector and payload
InitialKnowledge ==
    (1 :> [vector |-> Axis(1, Scale), doc_type |-> "tax", region |-> "VN"])
    @@ (2 :> [vector |-> Axis(Dim, Scale), doc_type |-> "tax",
              region |-> "US"])
    @@ (3 :> [vector |-> Axis(1, Scale), doc_type |-> "contract",
              region |-> "global"])
    @@ (4 :> [vector |-> Axis(Dim, Scale), doc_type |-> "guide",
              region |-> "global"])

\* no ingestion request has been served
IdleIngest ==
    [op |-> "none", outcome |-> "none", ingested_count |-> 0,
     \* history of the request, read by the properties only
     writes |-> 0, failed_writes |-> 0]

\* no recommendation request is being served
IdleRecommend ==
    [pc |-> "idle", op |-> "none", user_id |-> 0, product_id |-> 0,
     limit |-> 0, user_recommendations |-> <<>>, result |-> <<>>,
     outcome |-> "none",
     \* history of the request, read by the properties only
     stored |-> FALSE, branch |-> "none", defaults |-> <<>>,
     hits |-> <<>>]

\* the identifiers an InteractionEvent may carry (99 and "X" are unknown)
EventProductIds == {0, 42, 44, 99}

EventSkus == {"", "B", "X"}

\* ---------------------------------------------------------- QdrantService
\* get_product_vector: a raising retrieve is logged and reported as None
get_product_vector(product_id, raises) ==
    IF raises THEN None
    ELSE IF product_id \in DOMAIN product_catalog
         THEN product_catalog[product_id].vector
         ELSE None

\* cosine similarity of a stored vector to the query, as a fraction without
\* the query's own norm (the same for every point); 0 for a zero vector
RECURSIVE DotTo(_, _, _)
DotTo(a, b, n) == IF n = 0 THEN 0 ELSE a[n] * b[n] + DotTo(a, b, n - 1)

Dot(a, b) == DotTo(a, b, Len(a))

ScoreNum(query_vector, vector) ==
    IF vector = ZeroVector THEN 0 ELSE Dot(query_vector, vector)

ScoreDen(vector) == IF vector = ZeroVector THEN 1 ELSE Norm(vector)

\* Filter(must=[FieldCondition(key, MatchValue(value)) ...])
Matches(point, filters) ==
    \A key \in DOMAIN filters : point[key] = filters[key]

Min(a, b) == IF a <= b THEN a ELSE b

\* the first k of the points ids by descending score, points of equal
\* score in any order: each time one of the best of those left.  score
\* gives each point's similarity as a fraction <<numerator, denominator>>
RECURSIVE Ranked(_, _, _)
Ranked(score, ids, k) ==
    IF k <= 0 \/ ids = {} THEN {<<>>}
    ELSE LET best == {m \in ids : \A o \in ids :
                         score[m][1] * score[o][2]
                             >= score[o][1] * score[m][2]}
         IN  UNION {{<<m>> \o rest : rest \in Ranked(score, ids \ {m}, k - 1)} :
                       m \in best}

\* client.search: the answers the index may give, each the ids of the
\* points that pass the filter, by descending score, cut at limit
Search(collection, query_vector, limit, filters) ==
    LET ids == {id \in DOMAIN collection : Matches(collection[id], filters)}
        score == [id \in ids |->
                     <<ScoreNum(query_vector, collection[id].vector),
                       ScoreDen(collection[id].vector)>>]
    IN  Ranked(score, ids, limit)

\* search_products(query_vector, limit, filters); filters None is <<>>
search_products(query_vector, limit, filters) ==
    Search(product_catalog, query_vector, limit, filters)

\* search_knowledge_base(query_vector, limit, doc_type, region)
search_knowledge_base_params == {"query_vector", "limit", "doc_type", "region"}

search_knowledge_base(query_vector, limit, doc_type, region) ==
    Search(knowledge_base, query_vector, limit,
           (IF doc_type # "" THEN "doc_type" :> doc_type ELSE <<>>)
           @@ (IF region # "" THEN "region" :> region ELSE <<>>))

\* lines 59-65: search_products(dummy vector, limit=1, filters={"sku": sku});
\* the ids that results[0]["id"] may be
search_products_by_sku(sku) ==
    {r[1] : r \in {a \in search_products(ZeroVector, 1, "sku" :> sku) :
                      a # <<>>}}

\* get_user_vector: a raising retrieve is logged and reported as None
get_user_vector(user_id, raises) ==
    IF raises THEN None
    ELSE user_vectors[user_id]

\* ------------------------------------------------------ track_interaction
IdleCall ==
    [pc |-> "idle", user_id |-> 0, product_id |-> 0, sku |-> "",
     action |-> "VIEW", product_vector |-> None, user_vector |-> None,
     outcome |-> "none",
     \* history of the call, read by the properties only
     unknown_target |-> FALSE, resolved |-> "none",
     resolve_fault |-> FALSE, read_fault |-> FALSE, seen |-> None,
     branch |-> "none", upserts |-> 0, stale |-> FALSE]

\* the user_vectors collection outlives the service: a user has no vector
\* yet, or the vector a first interaction with product 42 or 44 stored
StoredAtStart == {None, InitialCatalog[42].vector, InitialCatalog[44].vector}

TrackInit ==
    /\ product_catalog = InitialCatalog
    /\ knowledge_base = InitialKnowledge
    /\ llm_available = FALSE
    /\ chat = [pc |-> "idle"]
    /\ ingest = IdleIngest
    /\ recommend = IdleRecommend
    /\ user_vectors \in [UserIds -> StoredAtStart]
    /\ user_vectors[999] = None
    /\ calls = [c \in Calls |-> IdleCall]
    /\ events = 0
    /\ faults = 0

\* an index request raises; at most MaxFaults times in a behaviour
Raises(raises) == raises => faults < MaxFaults

CountFault(raises) == faults' = IF raises THEN faults + 1 ELSE faults

\* the call is over: its locals are gone, its history stays
Finished(call, outcome) ==
    [IdleCall EXCEPT !.pc = "done", !.outcome = outcome,
                     !.user_id = call.user_id,
                     !.unknown_target = call.unknown_target,
                     !.stale = call.stale,
                     !.resolved = call.resolved,
                     !.resolve_fault = call.resolve_fault,
                     !.read_fault = call.read_fault,
                     !.branch = call.branch,
                     !.upserts = call.upserts]

Returned(call) == Finished(call, "returned")

Raised(call) == Finished(call, "raised")

InFlight(c) == calls[c].pc \in {"read", "save"}

AfterResolveUnchecked(call, how) ==
    [call EXCEPT !.pc = "read",
                 !.resolved = IF call.product_vector = None THEN "unresolved"
                              ELSE how]

\* line 68: without a product vector the event is dropped; sku is not used
\* after it
AfterResolve(call, how) ==
    IF call.product_vector = None
    THEN Returned([call EXCEPT !.resolved = "unresolved"])
    ELSE [call EXCEPT !.pc = "read", !.resolved = how, !.sku = ""]

\* lines 50-70: the event arrives and its product vector is resolved, by
\* product id first and by SKU otherwise.  Resolution only reads
\* product_catalog, so its requests are taken in one step; each of the three
\* requests may raise (by_id, search, by_sku).  A raising search reaches the
\* handler of lines 100-102, which raises again.
ResolveProduct(c, user_id, product_id, sku, action, by_id, search, by_sku) ==
    LET call == [IdleCall EXCEPT !.user_id = user_id,
                     !.product_id = product_id, !.sku = sku,
                     !.action = action,
                     !.unknown_target =
                         /\ product_id \notin DOMAIN product_catalog
                         /\ \A id \in DOMAIN product_catalog :
                                sku = "" \/ product_catalog[id].sku # sku]
        first == IF product_id # 0
                 THEN get_product_vector(product_id, by_id)
                 ELSE None
        hits == search_products_by_sku(sku)
    IN  /\ ~InFlight(c)
        /\ \A d \in Calls : d < c => InFlight(d)
        /\ events < MaxEvents
        /\ events' = events + 1
        /\ by_id => product_id # 0
        /\ search => first = None /\ sku # ""
        /\ by_sku => first = None /\ sku # "" /\ ~search /\ hits # {}
        /\ LET n == (IF by_id THEN 1 ELSE 0) + (IF search THEN 1 ELSE 0)
                    + (IF by_sku THEN 1 ELSE 0)
           IN  /\ faults + n <= MaxFaults
               /\ faults' = faults + n
        /\ IF first # None \/ sku = ""
           THEN calls' = [calls EXCEPT ![c] = AfterResolve(
                    [call EXCEPT !.product_vector = first,
                                 !.resolve_fault = by_id], "by_id")]
           ELSE IF search
           THEN calls' = [calls EXCEPT ![c] =
                    Raised([call EXCEPT !.resolve_fault = TRUE,
                                        !.resolved = "search_raised"])]
           ELSE IF hits = {}
           THEN calls' = [calls EXCEPT ![c] =
                    AfterResolve([call EXCEPT !.resolve_fault = by_id],
                                 "by_sku")]
           ELSE \E id \in hits :
                    calls' = [calls EXCEPT ![c] = AfterResolve(
                        [call EXCEPT
                            !.product_id = id,
                            !.product_vector = get_product_vector(id, by_sku),
                            !.resolve_fault = by_id \/ by_sku], "by_sku")]
        /\ UNCHANGED <<indexVars, ingestVars, recommendVars, chatVars, user_vectors>>

\* lines 73-93: read the user's vector and compute the vector to save
GetUserVector(c) ==
    /\ calls[c].pc = "read"
    /\ \E raises \in BOOLEAN :
        /\ Raises(raises)
        /\ LET call == calls[c]
               user_vector == get_user_vector(call.user_id, raises)
           IN  calls' = [calls EXCEPT ![c] =
                   [call EXCEPT
                       !.pc = "save",
                       !.user_vector = NewUserVector(user_vector,
                                           call.product_vector, call.action),
                       !.read_fault = raises,
                       !.seen = user_vectors[call.user_id],
                       !.branch = IF user_vector = None THEN "init"
                                  ELSE "decay"]]
        /\ CountFault(raises)
    /\ UNCHANGED <<indexVars, ingestVars, recommendVars, chatVars, user_vectors, events>>

upsert_user_vector_dropped(user_id, vector) == user_vectors

\* upsert_user_vector: one point upsert replaces the user's vector
upsert_user_vector(user_id, vector) ==
    [user_vectors EXCEPT ![user_id] = vector]

\* lines 96-102: save the vector; a raising upsert is raised again
UpsertUserVector(c) ==
    /\ calls[c].pc = "save"
    /\ \E raises \in BOOLEAN :
        /\ Raises(raises)
        /\ LET call == calls[c]
           IN  IF raises
               THEN /\ calls' = [calls EXCEPT ![c] = Raised(call)]
                    /\ UNCHANGED user_vectors
               ELSE /\ user_vectors' =
                           upsert_user_vector(call.user_id, call.user_vector)
                    /\ calls' = [calls EXCEPT ![c] =
                           Returned([call EXCEPT
                               !.upserts = 1,
                               !.stale = (user_vectors[call.user_id]
                                              # call.seen)])]
        /\ CountFault(raises)
    /\ UNCHANGED <<indexVars, ingestVars, recommendVars, chatVars, events>>

TrackNext ==
    \/ \E c \in Calls, u \in UserIds, p \in EventProductIds,
          s \in EventSkus, a \in Actions, by_id, search, by_sku \in BOOLEAN :
            ResolveProduct(c, u, p, s, a, by_id, search, by_sku)
    \/ \E c \in Calls : GetUserVector(c)
    \/ \E c \in Calls : UpsertUserVector(c)

SpecTrack == TrackInit /\ [][TrackNext]_vars

\* ------------------------------------------------ properties: tracking
Saving(c) == calls[c].pc = "save"

\* the step in which call c saves its vector and returns
Saved(c) == Saving(c) /\ calls'[c].pc = "done" /\ calls'[c].upserts = 1

\* the vector has unit L2 norm, to the rounding of one component
IsUnit(v) ==
    /\ SumSq(v) >= Scale * Scale - 2 * Scale
    /\ SumSq(v) <= Scale * Scale + 2 * Scale

\* C2: when the index raises during item resolution (the fetch by id or the
\* SKU search), track_interaction returns normally and issues no upsert
C2_ResolutionFaultTolerated ==
    \A c \in Calls :
        calls[c].resolve_fault =>
            /\ calls[c].outcome # "raised"
            /\ calls[c].pc = "done" => calls[c].upserts = 0

\* C3: a call that reads for a user with a stored vector never takes the
\* first-interaction branch: what it is about to save is the normalised
\* decay blend of the stored vector, also when the read of it raised
C3_StoredUserNeverReinitialized ==
    \A c \in Calls :
        Saving(c) /\ calls[c].seen # None =>
            /\ calls[c].branch = "decay"
            /\ calls[c].user_vector =
                   DecayUpdate(calls[c].seen, calls[c].product_vector,
                               calls[c].action)

\* C4 as claimed: read-through-write is a critical section per user, so the
\* vector a call is about to replace is the one it read
C4_ReadObservesPriorWrite ==
    \A c \in Calls :
        Saving(c) /\ ~calls[c].read_fault =>
            calls[c].seen = user_vectors[calls[c].user_id]

\* C4 as amended: last write wins.  Every save replaces the user's stored
\* vector, whatever it is by then, with the vector computed from what the
\* call itself read (None when its read raised), and touches no other user
C4_LastWriteWins ==
    [][\A c \in Calls :
          Saved(c) =>
              LET call == calls[c]
                  read == IF call.read_fault THEN None ELSE call.seen
              IN  /\ user_vectors'[call.user_id] =
                         NewUserVector(read, call.product_vector, call.action)
                  /\ \A u \in UserIds \ {call.user_id} :
                         user_vectors'[u] = user_vectors[u]]_vars

\* a save has replaced a vector that the saving call never read
C4_Witness ==
    \E c \in Calls :
        calls[c].pc = "done" /\ calls[c].upserts = 1 /\ calls[c].stale
            /\ ~calls[c].read_fault

\* C5: when the user has no stored vector at the call's read, the call
\* saves exactly the stored vector of the resolved product, for every
\* action kind
C5_FirstInteractionStoresItemVector ==
    [][\A c \in Calls :
          Saved(c) /\ calls[c].seen = None =>
              user_vectors'[calls[c].user_id] =
                  product_catalog[calls[c].product_id].vector]_vars

\* a first interaction has stored a product vector that is not of unit norm
C5_Witness ==
    \E c \in Calls :
        /\ calls[c].pc = "done" /\ calls[c].upserts = 1
        /\ calls[c].branch = "init" /\ ~calls[c].read_fault
        /\ user_vectors[calls[c].user_id] = product_catalog[43].vector

\* C6: an update of an existing vector saves a vector of unit norm when the
\* blend is not the zero vector, and the zero vector itself otherwise
C6_UpdateStoresUnitNorm ==
    [][\A c \in Calls :
          Saved(c) /\ calls[c].branch = "decay" =>
              LET blend == Blend(calls[c].seen, calls[c].product_vector,
                                 calls[c].action)
                  saved == user_vectors'[calls[c].user_id]
              IN  IF SumSq(blend) > 0 THEN IsUnit(saved)
                  ELSE saved = ZeroVector]_vars

\* an update has stored a unit vector that is no product's vector
C6_Witness ==
    \E c \in Calls :
        /\ calls[c].pc = "done" /\ calls[c].upserts = 1
        /\ calls[c].branch = "decay" /\ ~calls[c].stale
        /\ IsUnit(user_vectors[calls[c].user_id])
        /\ \A id \in DOMAIN product_catalog :
               user_vectors[calls[c].user_id] # product_catalog[id].vector

\* C7: an event whose product id is unknown and whose SKU is absent or
\* matches no product is dropped: the call returns normally, issues no
\* upsert and leaves every stored user vector as it was
C7_UnresolvableEventDiscarded ==
    [][\A c \in Calls :
          /\ calls'[c] # calls[c]
          /\ calls'[c].unknown_target
          /\ calls'[c].resolved # "search_raised"
          => /\ calls'[c].pc = "done"
             /\ calls'[c].outcome = "returned"
             /\ calls'[c].upserts = 0
             /\ user_vectors' = user_vectors]_vars

\* an event for an unknown product has been dropped while a vector is stored
C7_Witness ==
    \E c \in Calls :
        /\ calls[c].pc = "done" /\ calls[c].unknown_target
        /\ calls[c].outcome = "returned"
        /\ \E u \in UserIds : user_vectors[u] # None

\* C20: a request whose call to the router or to the generator backend
\* never returns is ended by a timeout and answered all the same
C20_BlockedCallTimesOut ==
    chat.pc \in {"router_call", "generator_call"}
        ~> (chat.pc = "done" /\ chat.outcome = "returned")

\* ================================================================ chat
\* ------------------------------------------------------------- strings
\* a str is the tuple of its characters
UpperToLower ==
    ("A" :> "a") @@ ("B" :> "b") @@ ("C" :> "c") @@ ("D" :> "d")
    @@ ("E" :> "e") @@ ("F" :> "f") @@ ("G" :> "g") @@ ("H" :> "h")
    @@ ("I" :> "i") @@ ("J" :> "j") @@ ("K" :> "k") @@ ("L" :> "l")
    @@ ("M" :> "m") @@ ("N" :> "n") @@ ("O" :> "o") @@ ("P" :> "p")
    @@ ("Q" :> "q") @@ ("R" :> "r") @@ ("S" :> "s") @@ ("T" :> "t")
    @@ ("U" :> "u") @@ ("V" :> "v") @@ ("W" :> "w") @@ ("X" :> "x")
    @@ ("Y" :> "y") @@ ("Z" :> "z")

\* str.lower()
lower(text) ==
    [i \in 1..Len(text) |->
        IF text[i] \in DOMAIN UpperToLower THEN UpperToLower[text[i]]
        ELSE text[i]]

\* kw in text
Contains(text, kw) ==
    \E i \in 0..(Len(text) - Len(kw)) : SubSeq(text, i + 1, i + Len(kw)) = kw

\* str.strip() leaves nothing: the text is empty or blank
IsBlank(text) == \A i \in 1..Len(text) : text[i] = " "

\* the queries a request may carry
Queries ==
    {<<>>,
     <<" ">>,
     <<"h", "e", "l", "l", "o">>,
     <<"F", "i", "n", "d", " ", "l", "a", "p", "t", "o", "p", "s", " ", "T", "A", "X">>,
     <<"i", "m", "p", "o", "r", "t", "a", "n", "t">>,
     <<"w", "h", "o", " ", "s", "e", "l", "l", "s", " ", "g", "u", "i", "d", "e">>,
     <<"l", "e", "g", "a", "l">>}

\* --------------------------------------------------------- QueryIntent
Vocabulary ==
    {"product_search", "tax_question", "contract_help", "supplier_info",
     "platform_help", "general"}

\* a JSON value in the place of the intents list: a list of strings, null,
\* or a string (kept as a one-element tuple)
JList(labels) == [t |-> "list", v |-> labels]

JNull == [t |-> "null", v |-> <<>>]

JStr(text) == [t |-> "str", v |-> <<text>>]

\* a JSON value in the place of the confidence: a number in hundredths,
\* null, or a string
JNum(n) == [t |-> "num", n |-> n]

JNoNum(t) == [t |-> t, n |-> 0]

\* a JSON value in the place of a filter mapping: null or an object
NoFilters == [null |-> TRUE, d |-> <<>>]

Filters(d) == [null |-> FALSE, d |-> d]

QueryIntent(intents, product_filters, knowledge_filters, confidence) ==
    [intents |-> intents, product_filters |-> product_filters,
     knowledge_filters |-> knowledge_filters, confidence |-> confidence]

\* ---------------------------------------------- _fallback_classification
ProductKeywords ==
    {<<"p", "r", "o", "d", "u", "c", "t">>,
     <<"b", "u", "y">>,
     <<"p", "u", "r", "c", "h", "a", "s", "e">>,
     <<"p", "r", "i", "c", "e">>,
     <<"f", "i", "n", "d">>,
     <<"s", "e", "a", "r", "c", "h">>,
     <<"l", "o", "o", "k", "i", "n", "g", " ", "f", "o", "r">>}

TaxKeywords ==
    {<<"t", "a", "x">>,
     <<"d", "u", "t", "y">>,
     <<"i", "m", "p", "o", "r", "t">>,
     <<"e", "x", "p", "o", "r", "t">>,
     <<"r", "e", "g", "u", "l", "a", "t", "i", "o", "n">>}

ContractKeywords ==
    {<<"c", "o", "n", "t", "r", "a", "c", "t">>,
     <<"a", "g", "r", "e", "e", "m", "e", "n", "t">>,
     <<"l", "e", "g", "a", "l">>,
     <<"t", "e", "m", "p", "l", "a", "t", "e">>}

SupplierKeywords ==
    {<<"s", "u", "p", "p", "l", "i", "e", "r">>,
     <<"v", "e", "n", "d", "o", "r">>,
     <<"s", "e", "l", "l", "e", "r">>,
     <<"w", "h", "o", " ", "s", "e", "l", "l", "s">>}

PlatformKeywords ==
    {<<"h", "o", "w", " ", "t", "o">>,
     <<"h", "o", "w", " ", "d", "o", " ", "i">>,
     <<"h", "e", "l", "p", " ", "m", "e">>,
     <<"g", "u", "i", "d", "e">>}

AnyKeyword(query_lower, keywords) ==
    \E kw \in keywords : Contains(query_lower, kw)

KeywordConfidence == 60

fallback_intents_first_match(query_lower) ==
    IF AnyKeyword(query_lower, ProductKeywords) THEN <<"product_search">>
    ELSE IF AnyKeyword(query_lower, TaxKeywords) THEN <<"tax_question">>
    ELSE IF AnyKeyword(query_lower, ContractKeywords)
    THEN <<"contract_help">>
    ELSE IF AnyKeyword(query_lower, SupplierKeywords)
    THEN <<"supplier_info">>
    ELSE IF AnyKeyword(query_lower, PlatformKeywords)
    THEN <<"platform_help">>
    ELSE <<"general">>

\* lines 134-149: one label per keyword set that matches, else general
fallback_intents(query_lower) ==
    LET intents ==
            (IF AnyKeyword(query_lower, ProductKeywords)
             THEN <<"product_search">> ELSE <<>>)
            \o (IF AnyKeyword(query_lower, TaxKeywords)
                THEN <<"tax_question">> ELSE <<>>)
            \o (IF AnyKeyword(query_lower, ContractKeywords)
                THEN <<"contract_help">> ELSE <<>>)
            \o (IF AnyKeyword(query_lower, SupplierKeywords)
                THEN <<"supplier_info">> ELSE <<>>)
            \o (IF AnyKeyword(query_lower, PlatformKeywords)
                THEN <<"platform_help">> ELSE <<>>)
    IN  IF intents = <<>> THEN <<"general">> ELSE intents

_fallback_classification_router_default(query) ==
    QueryIntent(JList(fallback_intents(lower(query))), NoFilters, NoFilters,
                JNum(80))

\* lines 133 and 151
_fallback_classification(query) ==
    QueryIntent(JList(fallback_intents(lower(query))), NoFilters, NoFilters,
                JNum(KeywordConfidence))

\* ------------------------------------------------ the router backend
LabelOrder ==
    <<"product_search", "tax_question", "contract_help", "supplier_info",
      "platform_help", "general">>

AsList(labels) == SelectSeq(LabelOrder, LAMBDA l : l \in labels)

RequiredKeys ==
    {"intents", "product_filters", "knowledge_filters",
     "requires_realtime_data", "confidence"}

\* what generate_content and response.text may give: the request raises,
\* the text is not JSON, the JSON is not an object, or it is an object
Response(kind, keys, intents, pf, kf, confidence) ==
    [kind |-> kind, keys |-> keys, intents |-> intents,
     product_filters |-> pf, knowledge_filters |-> kf,
     confidence |-> confidence]

NoObject(kind) ==
    Response(kind, {}, JNull, NoFilters, NoFilters, JNoNum("null"))

Object(keys, intents, product_filters, knowledge_filters, confidence) ==
    Response("object", keys, intents, product_filters, knowledge_filters,
             confidence)

\* no request is made to the backend
NoCall == NoObject("no_call")

IntentValues ==
    {JList(AsList(labels)) :
        labels \in {L \in SUBSET Vocabulary :
                        Cardinality(L) <= 2
                        \/ L = Vocabulary \ {"general"}}}
    \cup {JList(<<"shipping">>), JList(<<"product_search", "shipping">>),
          JNull, JStr("product_search")}

ConfidenceValues ==
    {JNum(95), JNum(0), JNum(100), JNum(150), JNum(0 - 10),
     JNoNum("null"), JNoNum("str")}

KnowledgeFilterValues ==
    {NoFilters, Filters(<<>>), Filters("region" :> "VN"),
     Filters(("doc_type" :> "guide") @@ ("region" :> "VN"))}

ProductFilterValues ==
    {NoFilters, Filters("category" :> "electronics"),
     Filters("supplier_id" :> 55),
     Filters(("category" :> "footwear") @@ ("price_max" :> 1000))}

Responses ==
    {NoObject(kind) : kind \in {"raises", "malformed", "non_object"}}
    \cup {Object(RequiredKeys, i, NoFilters, k, JNum(95)) :
            i \in IntentValues, k \in KnowledgeFilterValues}
    \cup {Object(RequiredKeys, JList(AsList(labels)), f, NoFilters,
                 JNum(95)) :
            labels \in {{"product_search"}, {"supplier_info"}},
            f \in ProductFilterValues}
    \cup {Object(RequiredKeys, JList(<<"product_search">>), NoFilters,
                 NoFilters, c) : c \in ConfidenceValues}
    \cup {Object(keys, JList(<<"tax_question">>), NoFilters,
                 Filters("region" :> "VN"), JNum(95)) :
            keys \in {RequiredKeys \ {"intents"},
                      RequiredKeys \ {"confidence"},
                      RequiredKeys \ {"knowledge_filters"}, {}}}

\* --------------------------------------------- classify_query_with_llm
\* result.get(key, default)
Get(response, key, value, default) ==
    IF key \in response.keys THEN value ELSE default

\* lines 100-119: the exception the try block ends with, or "none"
RouterException(response) ==
    CASE response.kind = "raises" -> "Exception"
      [] response.kind = "malformed" -> "JSONDecodeError"
      [] response.kind = "non_object" -> "AttributeError"
      [] OTHER -> "none"

HandledJSONDecodeErrorOnly(exception) == exception = "JSONDecodeError"

\* lines 124-129: except json.JSONDecodeError, except Exception
Handled(exception) ==
    exception \in {"JSONDecodeError", "Exception", "AttributeError"}

LlmConfidenceDefault == 80

RouterIntentValidated(query, response) ==
    IF response.keys = RequiredKeys
    THEN QueryIntent(response.intents, response.product_filters,
                     response.knowledge_filters, response.confidence)
    ELSE _fallback_classification(query)

\* lines 113-119: the QueryIntent built from the parsed object
RouterIntent(query, response) ==
    QueryIntent(
        Get(response, "intents", response.intents, JList(<<"general">>)),
        Get(response, "product_filters", response.product_filters,
            NoFilters),
        Get(response, "knowledge_filters", response.knowledge_filters,
            NoFilters),
        Get(response, "confidence", response.confidence,
            JNum(LlmConfidenceDefault)))

\* lines 96-129
classify_query_with_llm(query, response) ==
    IF ~llm_available
    THEN [outcome |-> "returned", path |-> "keyword",
          intent |-> _fallback_classification(query)]
    ELSE IF RouterException(response) = "none"
    THEN [outcome |-> "returned", path |-> "llm",
          intent |-> RouterIntent(query, response)]
    ELSE IF Handled(RouterException(response))
    THEN [outcome |-> "returned", path |-> "keyword",
          intent |-> _fallback_classification(query)]
    ELSE [outcome |-> "raised", path |-> "llm",
          intent |-> _fallback_classification(query)]

\* ------------------------------------------------------ EmbeddingService
\* embed_text: the sentence-transformer is a fixed function of the text;
\* it stands here as one of two directions
embed_text(text) ==
    IF Contains(lower(text), <<"t", "a", "x">>) THEN Axis(1, Scale)
    ELSE Axis(Dim, Scale)

\* ------------------------------------------------------ retrieve_context
Sources == {"products", "tax_docs", "contract_docs", "suppliers", "guides"}

\* label in intent.intents, for a list and for a str
HasIntent(intents, label) ==
    IF intents.t = "list"
    THEN \E i \in 1..Len(intents.v) : intents.v[i] = label
    ELSE intents.v = <<label>>

Put(d, key, value) ==
    [k \in DOMAIN d \cup {key} |-> IF k = key THEN value ELSE d[k]]

\* intent.knowledge_filters or {}: a non-empty mapping is used itself
IsShared(knowledge_filters) ==
    ~knowledge_filters.null /\ knowledge_filters.d # <<>>

\* lines 172-173 and 177-178: filters["doc_type"] = doc_type writes into
\* the intent's own mapping when that is the one in use
WithDocType(knowledge_filters, doc_type) ==
    IF IsShared(knowledge_filters)
    THEN Filters(Put(knowledge_filters.d, "doc_type", doc_type))
    ELSE knowledge_filters

Task(search, shared, filters) ==
    [search |-> search, shared |-> shared, filters |-> filters]

KnowledgeTask(knowledge_filters, doc_type) ==
    IF IsShared(knowledge_filters)
    THEN Task("knowledge", TRUE, NoFilters)
    ELSE Task("knowledge", FALSE, Filters("doc_type" :> doc_type))

\* the intent's knowledge_filters after the tax and the contract branch
FiltersAfterTax(intent) ==
    IF HasIntent(intent.intents, "tax_question")
    THEN WithDocType(intent.knowledge_filters, "tax")
    ELSE intent.knowledge_filters

FiltersAfterContract(intent) ==
    IF HasIntent(intent.intents, "contract_help")
    THEN WithDocType(FiltersAfterTax(intent), "contract")
    ELSE FiltersAfterTax(intent)

\* lines 166-186: the coroutines created, keyed by source
BuildTasks(intent) ==
    LET has(label) == HasIntent(intent.intents, label)
        on(label, source, task) ==
            IF has(label) THEN source :> task ELSE <<>>
    IN  on("product_search", "products",
           Task("products", FALSE, intent.product_filters))
        @@ on("tax_question", "tax_docs",
              KnowledgeTask(intent.knowledge_filters, "tax"))
        @@ on("contract_help", "contract_docs",
              KnowledgeTask(FiltersAfterTax(intent), "contract"))
        @@ on("supplier_info", "suppliers",
              Task("products", FALSE, intent.product_filters))
        @@ on("platform_help", "guides",
              Task("knowledge", FALSE, Filters("doc_type" :> "guide")))

\* the mapping a task reads when it runs
TaskFilters(task, intent) ==
    LET filters == IF task.shared THEN intent.knowledge_filters
                   ELSE task.filters
    IN  IF filters.null THEN <<>> ELSE filters.d

Restrict(d, keys) == [k \in DOMAIN d \cap keys |-> d[k]]

ProductLimit == 5

KnowledgeLimit == 3

\* lines 210-221: the request _search_products sends to the index
ProductAnswers(filters, query_embedding) ==
    search_products(query_embedding, ProductLimit,
                    Restrict(filters, {"category", "supplier_id"}))

\* lines 234-245: the request _search_knowledge means to send to the index
KnowledgeAnswers(filters, query_embedding) ==
    LET qdrant_filters == Restrict(filters, {"doc_type", "region"})
        of(key) == IF key \in DOMAIN qdrant_filters
                   THEN qdrant_filters[key] ELSE ""
    IN  search_knowledge_base(query_embedding, KnowledgeLimit,
                              of("doc_type"), of("region"))

\* the keyword arguments of the call of lines 241-245
KnowledgeCallKeywords == {"query_vector", "limit", "filters"}

\* a call with a keyword the function does not declare raises TypeError
CallAccepted(keywords, params) == keywords \subseteq params

_search_products_returns_nothing(raises, answer) == <<>>

\* lines 208-225: the hits, or [] when the request raised
_search_products(raises, answer) ==
    IF raises THEN <<>> ELSE answer

_search_knowledge_unguarded(raises, answer) == answer

\* lines 233-249: the hits, or [] when the call or the request raised
_search_knowledge(raises, answer) ==
    IF ~CallAccepted(KnowledgeCallKeywords, search_knowledge_base_params)
    THEN <<>>
    ELSE IF raises THEN <<>> ELSE answer

\* -------------------------------------------- _generate_llm_response
\* a response text: one message, or sections joined by blank lines, each a
\* header line and one bullet line per hit; the empty str has neither
Text(message, parts) == [message |-> message, parts |-> parts]

EmptyText == Text("", <<>>)

IsEmptyText(text) == text.message = "" /\ text.parts = <<>>

NoInformationMessage ==
    Text("I apologize, but I couldn't find relevant information", <<>>)

NotFormattedMessage ==
    Text("I found some information but couldn't format it properly", <<>>)

\* the keys of the context that the composer has a section for, in the
\* order of lines 474-492, and their headers
ComposerSources == <<"products", "tax_docs", "contract_docs", "guides">>

Header(source) ==
    CASE source = "products" -> "**Products Found:**"
      [] source = "tax_docs" -> "**Tax Information:**"
      [] source = "contract_docs" -> "**Contract Information:**"
      [] source = "guides" -> "**Guides:**"
      [] OTHER -> ""

\* context.get(source): the hits, [] for a missing key
ContextGet(context, source) ==
    IF source \in DOMAIN context THEN context[source] ELSE <<>>

Section(source, hits) ==
    [source |-> source, header |-> Header(source), bullets |-> hits]

RECURSIVE response_parts(_, _)
response_parts(context, n) ==
    IF n = 0 THEN <<>>
    ELSE LET source == ComposerSources[n]
             hits == ContextGet(context, source)
         IN  response_parts(context, n - 1)
             \o (IF hits # <<>> THEN <<Section(source, hits)>> ELSE <<>>)

\* lines 469-494
_generate_fallback_response(context) ==
    IF \A source \in DOMAIN context : context[source] = <<>>
    THEN NoInformationMessage
    ELSE LET parts == response_parts(context, Len(ComposerSources))
         IN  IF parts # <<>> THEN Text("", parts) ELSE NotFormattedMessage

\* what generate_content and response.text may give the generator: the
\* request raises, or the text of the reply, which may be the empty str
GeneratorReplies == {"raises", "text", "empty_text"}

GeneratedText == Text("generated", <<>>)

_generate_llm_response_backend_first(context, reply) ==
    IF reply = "raises" THEN _generate_fallback_response(context)
    ELSE IF reply = "empty_text" THEN EmptyText
    ELSE GeneratedText

\* lines 379-430
_generate_llm_response(context, reply) ==
    IF ~llm_available THEN _generate_fallback_response(context)
    ELSE IF reply = "raises" THEN _generate_fallback_response(context)
    ELSE IF reply = "empty_text" THEN EmptyText
    ELSE GeneratedText

\* -------------------------------------------------- generate_response
\* lines 286-291: the keys of the dict generate_response returns
ResultKeys == {"response", "sources", "intents", "confidence"}

\* api/chat.py lines 60-64: the fields GenerateResponseResult requires
\* (Field(...)); sources has a default
GenerateResponseResultRequired == {"response", "query_type"}

\* GenerateResponseResult(**result): keys that are no field are ignored, a
\* required field without a key is a ValidationError
GenerateResponseResult(keys) ==
    IF GenerateResponseResultRequired \subseteq keys THEN "model"
    ELSE "ValidationError"

\* api/chat.py lines 81-96: the status /generate answers with; every
\* exception, of the pipeline or of the result model, becomes HTTP 500
generate_endpoint(outcome, keys) ==
    IF outcome = "raised" THEN 500
    ELSE IF GenerateResponseResult(keys) = "ValidationError" THEN 500
    ELSE 200

NoClassification ==
    [outcome |-> "none", path |-> "none",
     intent |-> QueryIntent(JNull, NoFilters, NoFilters, JNoNum("null"))]

IdleRequest ==
    [pc |-> "idle", query |-> <<>>, response |-> NoCall,
     classified |-> NoClassification,
     intent |-> NoClassification.intent,
     tasks |-> <<>>, results |-> <<>>, context |-> <<>>,
     answer |-> EmptyText, outcome |-> "none", status |-> 0,
     \* history of the request, read by the properties only
     issued |-> <<>>, generated |-> "none"]

ChatInit ==
    /\ product_catalog = InitialCatalog
    /\ knowledge_base = InitialKnowledge
    /\ user_vectors = [u \in UserIds |-> None]
    /\ calls = [c \in Calls |-> IdleCall]
    /\ events = 0
    /\ faults = 0
    /\ llm_available \in BOOLEAN
    /\ chat = IdleRequest
    /\ ingest = IdleIngest
    /\ recommend = IdleRecommend

\* line 268: classify the query; the router backend is asked only when an
\* API key is configured
Classify(query, response) ==
    /\ chat.pc = "idle"
    /\ (response = NoCall) = ~llm_available
    /\ LET classified == classify_query_with_llm(query, response)
       IN  chat' = [chat EXCEPT
               !.pc = IF classified.outcome = "raised" THEN "done"
                      ELSE "classified",
               !.query = query,
               !.response = response,
               !.classified = classified,
               !.intent = classified.intent,
               !.outcome = IF classified.outcome = "raised" THEN "raised"
                           ELSE "none",
               !.status = IF classified.outcome = "raised"
                          THEN generate_endpoint("raised", {})
                          ELSE 0]
    /\ UNCHANGED <<indexVars, ingestVars, recommendVars, trackVars, llm_available>>

\* lines 163-186 and 200: embed the query and create the tasks; a blank
\* query makes embed_text raise, intents None makes the first test raise
RetrieveStart ==
    /\ chat.pc = "classified"
    /\ IF IsBlank(chat.query) \/ chat.intent.intents.t = "null"
       THEN chat' = [chat EXCEPT !.pc = "done", !.outcome = "raised",
                                 !.status = generate_endpoint("raised", {})]
       ELSE LET tasks == BuildTasks(chat.intent)
                intent == [chat.intent EXCEPT
                    !.knowledge_filters = FiltersAfterContract(chat.intent)]
            IN  chat' = [chat EXCEPT
                    !.pc = IF DOMAIN tasks = {} THEN "retrieved"
                           ELSE "gathering",
                    !.intent = intent,
                    !.tasks = tasks]
    /\ UNCHANGED <<indexVars, ingestVars, recommendVars, trackVars, llm_available>>

\* one task of the gather runs: its request to the index is answered or
\* raises
RunTask(source) ==
    /\ chat.pc = "gathering"
    /\ source \in DOMAIN chat.tasks
    /\ source \notin DOMAIN chat.results
    /\ LET task == chat.tasks[source]
           filters == TaskFilters(task, chat.intent)
           query_embedding == embed_text(chat.query)
           called == \/ task.search = "products"
                     \/ CallAccepted(KnowledgeCallKeywords,
                                     search_knowledge_base_params)
           answers == IF task.search = "products"
                      THEN ProductAnswers(filters, query_embedding)
                      ELSE KnowledgeAnswers(filters, query_embedding)
       IN  \E raises \in BOOLEAN, answer \in answers :
               /\ raises => called
               /\ chat' = [chat EXCEPT
                      !.results = (source :>
                          IF task.search = "products"
                          THEN _search_products(raises, answer)
                          ELSE _search_knowledge(raises, answer))
                          @@ chat.results,
                      !.issued = (source :>
                          [failed |-> raises \/ ~called,
                           called |-> called,
                           raised |-> raises,
                           filters |-> filters,
                           answer |-> answer]) @@ chat.issued]
    /\ UNCHANGED <<indexVars, ingestVars, recommendVars, trackVars, llm_available>>

RetrieveJoinEarly ==
    /\ chat.pc = "gathering"
    /\ chat' = [chat EXCEPT !.pc = "retrieved", !.context = chat.results]
    /\ UNCHANGED <<indexVars, ingestVars, recommendVars, trackVars, llm_available>>

\* lines 190-198: every task has completed; a result that is an exception
\* becomes [] (no task of this service hands one over)
RetrieveJoin ==
    /\ chat.pc = "gathering"
    /\ DOMAIN chat.results = DOMAIN chat.tasks
    /\ chat' = [chat EXCEPT !.pc = "retrieved", !.context = chat.results]
    /\ UNCHANGED <<indexVars, ingestVars, recommendVars, trackVars, llm_available>>

\* lines 275-291: the answer is generated and the result is returned; the
\* generator backend is asked only when an API key is configured
Generate(reply) ==
    /\ chat.pc = "retrieved"
    /\ (reply = "no_call") = ~llm_available
    /\ chat' = [chat EXCEPT
           !.pc = "done",
           !.outcome = "returned",
           !.status = generate_endpoint("returned", ResultKeys),
           !.generated = reply,
           !.answer = _generate_llm_response(chat.context, reply)]
    /\ UNCHANGED <<indexVars, ingestVars, recommendVars, trackVars, llm_available>>

ChatNext ==
    \/ \E query \in Queries, response \in Responses \cup {NoCall} :
          Classify(query, response)
    \/ RetrieveStart
    \/ \E source \in Sources : RunTask(source)
    \/ RetrieveJoin
    \/ \E reply \in GeneratorReplies \cup {"no_call"} : Generate(reply)

SpecChat == ChatInit /\ [][ChatNext]_vars

\* lines 102-108: generate_content is called without a timeout and awaits
\* nothing; when the router backend never answers, the request stays in it
RouterBlocks(query) ==
    /\ chat.pc = "idle"
    /\ llm_available
    /\ chat' = [chat EXCEPT !.pc = "router_call", !.query = query]
    /\ UNCHANGED <<indexVars, ingestVars, recommendVars, trackVars, llm_available>>

\* lines 419-425: the same for the generator backend
GeneratorBlocks ==
    /\ chat.pc = "retrieved"
    /\ llm_available
    /\ chat' = [chat EXCEPT !.pc = "generator_call"]
    /\ UNCHANGED <<indexVars, ingestVars, recommendVars, trackVars, llm_available>>

ChatLiveNext ==
    \/ ChatNext
    \/ \E query \in Queries : RouterBlocks(query)
    \/ GeneratorBlocks

\* the request is served whenever it has a step to take; a backend that
\* never answers gives it none
SpecChatLive ==
    ChatInit /\ [][ChatLiveNext]_vars /\ WF_vars(ChatLiveNext)

\* ---------------------------------------------------- properties: chat
\* C1: once retrieve_context has created its tasks it returns normally,
\* every task completes, a source whose query raised maps to the empty
\* list and every other source maps to the index's answer as it was given
C1_RetrievalFailureIsolated ==
    /\ chat.pc \in {"gathering", "retrieved"} => chat.outcome # "raised"
    /\ chat.pc = "retrieved" =>
          /\ DOMAIN chat.context = DOMAIN chat.tasks
          /\ \A source \in DOMAIN chat.tasks :
                chat.context[source] =
                    IF chat.issued[source].failed THEN <<>>
                    ELSE chat.issued[source].answer

\* one source's query raised although the index held hits for it, and
\* another source's hits were returned
C1_Witness ==
    /\ chat.pc = "retrieved"
    /\ \E failed, other \in DOMAIN chat.tasks :
          /\ chat.issued[failed].raised
          /\ chat.issued[failed].answer # <<>>
          /\ chat.context[failed] = <<>>
          /\ ~chat.issued[other].failed
          /\ chat.context[other] # <<>>

\* C8: classification returns a QueryIntent for every query and every
\* behaviour of the router backend; it never raises
C8_ClassifyNeverFails ==
    chat.pc # "idle" =>
        /\ chat.classified.outcome = "returned"
        /\ chat.classified.path \in {"llm", "keyword"}
        /\ DOMAIN chat.classified.intent =
               {"intents", "product_filters", "knowledge_filters",
                "confidence"}

\* the backend answered with JSON that is not an object and the keyword
\* strategy classified the query
C8_Witness ==
    /\ chat.pc = "classified"
    /\ chat.response.kind = "non_object"
    /\ chat.classified.path = "keyword"

\* a well-formed JSON object that lacks a required key
LacksRequiredKey ==
    /\ chat.pc # "idle"
    /\ chat.response.kind = "object"
    /\ chat.response.keys # RequiredKeys

C10_IntentWellFormed ==
    chat.pc # "idle" /\ chat.classified.outcome = "returned" =>
        LET intent == chat.classified.intent
        IN  /\ intent.intents.t = "list"
            /\ \A i \in 1..Len(intent.intents.v) :
                   intent.intents.v[i] \in Vocabulary
            /\ intent.confidence.t = "num"
            /\ intent.confidence.n >= 0
            /\ intent.confidence.n <= 100

\* the classification came from the keyword strategy
OnKeywordPath == chat.pc # "idle" /\ chat.classified.path = "keyword"

\* the classification came from the router backend's JSON object
OnModelPath == chat.pc # "idle" /\ chat.classified.path = "llm"

\* C11: a query that contains, in any letter case, a product keyword and a
\* tax keyword is classified by the keyword strategy with both
\* product_search and tax_question among its intents
C11_ProductAndTaxKeywords ==
    /\ OnKeywordPath
    /\ \E kw \in ProductKeywords : Contains(lower(chat.query), kw)
    /\ \E kw \in TaxKeywords : Contains(lower(chat.query), kw)
    => /\ HasIntent(chat.classified.intent.intents, "product_search")
       /\ HasIntent(chat.classified.intent.intents, "tax_question")

\* a query with the tax keyword in capitals was classified with both labels
C11_Witness ==
    /\ OnKeywordPath
    /\ Contains(chat.query, <<"T", "A", "X">>)
    /\ Contains(chat.query, <<"F", "i", "n", "d">>)
    /\ chat.classified.intent.intents =
           JList(<<"product_search", "tax_question">>)

\* a is a number strictly below the number b
Below(a, b) == a.t = "num" /\ b.t = "num" /\ a.n < b.n

\* C12 as claimed: the keyword strategy's confidence is one constant, and
\* the confidence of every QueryIntent of the model-backed path is a number
\* strictly above it
C12_KeywordConfidenceLowest ==
    /\ OnKeywordPath => chat.classified.intent.confidence = JNum(60)
    /\ OnModelPath => Below(JNum(60), chat.classified.intent.confidence)

\* C12 as amended: the keyword strategy's confidence is the constant 0.6,
\* strictly below the 0.8 that the model-backed path takes when the backend
\* names no confidence; a confidence the backend names is copied as it is
C12_KeywordConfidenceBelowDefault ==
    /\ OnKeywordPath => chat.classified.intent.confidence = JNum(60)
    /\ OnModelPath =>
          IF "confidence" \in chat.response.keys
          THEN chat.classified.intent.confidence = chat.response.confidence
          ELSE Below(JNum(60), chat.classified.intent.confidence)

\* the backend's object named no confidence and the intent carries 0.8
C12_Witness ==
    /\ OnModelPath
    /\ "confidence" \notin chat.response.keys
    /\ chat.classified.intent.confidence = JNum(80)

\* the doc_type and region conditions of the request a knowledge task
\* builds (lines 234-239)
IssuedFilters(source) ==
    Restrict(chat.issued[source].filters, {"doc_type", "region"})

\* the region filter of the intent as classification returned it
RegionFilter ==
    LET knowledge_filters == chat.classified.intent.knowledge_filters
    IN  IF ~knowledge_filters.null /\ "region" \in DOMAIN knowledge_filters.d
        THEN "region" :> knowledge_filters.d["region"]
        ELSE <<>>

\* C13: the request built for tax_docs carries doc_type=tax and the
\* intent's region filter, and the request built for contract_docs carries
\* doc_type=contract
C13_KnowledgeQueriesFiltered ==
    chat.pc = "retrieved" =>
        /\ "tax_docs" \in DOMAIN chat.tasks =>
               IssuedFilters("tax_docs") = ("doc_type" :> "tax") @@ RegionFilter
        /\ "contract_docs" \in DOMAIN chat.tasks =>
               /\ "doc_type" \in DOMAIN IssuedFilters("contract_docs")
               /\ IssuedFilters("contract_docs")["doc_type"] = "contract"

\* C14: every source whose request the index did not fail holds in the
\* context exactly the answer of the index for that source's filtered
\* query, the hits in the order of the index
C14_ContextIsIndexAnswer ==
    chat.pc = "retrieved" =>
        \A source \in DOMAIN chat.tasks :
            ~chat.issued[source].raised =>
                chat.context[source] = chat.issued[source].answer

\* generate_response has returned its result
Answered == chat.pc = "done" /\ chat.outcome = "returned"

\* the answer was composed by the template composer
Composed == Answered /\ chat.generated \in {"no_call", "raises"}

\* the sources that hold at least one hit in the context
NonEmptySources ==
    {source \in DOMAIN chat.context : chat.context[source] # <<>>}

\* the sources the answer has a section for
SectionSources ==
    {chat.answer.parts[i].source : i \in 1..Len(chat.answer.parts)}

\* C15: the answer of a request that returned is never the empty text, and
\* it is the template composer's output when no backend is configured or
\* the generation call raised
C15_AnswerNeverEmpty ==
    Answered =>
        /\ ~IsEmptyText(chat.answer)
        /\ Composed => chat.answer = _generate_fallback_response(chat.context)

\* C16: the composer's output has exactly one section, under the source's
\* fixed header, for each source with hits and none for a source without,
\* and it is the no-information message exactly when no source has hits
C16_SectionPerNonEmptySource ==
    Composed =>
        /\ SectionSources = NonEmptySources
        /\ \A i, j \in 1..Len(chat.answer.parts) :
               /\ chat.answer.parts[i].header # ""
               /\ chat.answer.parts[i].source = chat.answer.parts[j].source
                      => i = j
        /\ (chat.answer = NoInformationMessage) = (NonEmptySources = {})

\* a request without a model backend whose query the keyword strategy
\* classified as product_search and tax_question
ProductAndTaxRequest ==
    /\ ~llm_available
    /\ chat.pc # "idle"
    /\ chat.classified.intent.intents =
           JList(<<"product_search", "tax_question">>)

\* C17: without a model backend, for a query classified as product_search
\* and tax_question, when the tax_docs call raised and the products search
\* answered with hits, the request returns, the context has hits under
\* products and none under tax_docs, and the answer has the Products Found
\* section and no tax section
C17_TaxFailureProductsAnswered ==
    /\ ProductAndTaxRequest /\ ~IsBlank(chat.query) => chat.outcome # "raised"
    /\ /\ ProductAndTaxRequest
       /\ chat.pc = "done"
       /\ DOMAIN chat.issued = {"products", "tax_docs"}
       /\ chat.issued["tax_docs"].failed
       /\ ~chat.issued["products"].failed
       /\ chat.issued["products"].answer # <<>>
       => /\ Answered
          /\ chat.context["products"] = chat.issued["products"].answer
          /\ chat.context["tax_docs"] = <<>>
          /\ \E i \in 1..Len(chat.answer.parts) :
                 /\ chat.answer.parts[i].header = "**Products Found:**"
                 /\ chat.answer.parts[i].bullets = chat.context["products"]
          /\ \A i \in 1..Len(chat.answer.parts) :
                 chat.answer.parts[i].header # "**Tax Information:**"

\* such a request has been answered with the Products Found section alone
\* although the index holds tax documents for the query
C17_Witness ==
    /\ ProductAndTaxRequest
    /\ Answered
    /\ chat.issued["tax_docs"].failed
    /\ chat.issued["tax_docs"].answer # <<>>
    /\ Len(chat.answer.parts) = 1
    /\ chat.answer.parts[1].header = "**Products Found:**"
    /\ chat.answer.parts[1].bullets # <<>>

\* C18: a chat request ends with an error only for a hard failure (here
\* the empty or blank text that embed_text refuses); nothing the router
\* backend answers makes it end so
C18_OnlyHardFailuresAbort ==
    chat.outcome = "raised" => IsBlank(chat.query)

\* C27: with no generation backend configured no backend is called, in
\* classification or in generation, and the intents and the answer are
\* functions of the query and of the retrieved context alone: the keyword
\* classification of the query and the template composer's text
C27_NoBackendDeterministic ==
    ~llm_available =>
        /\ chat.response = NoCall
        /\ chat.generated \in {"none", "no_call"}
        /\ chat.pc # "idle" =>
               /\ chat.classified.path = "keyword"
               /\ chat.classified.intent.intents =
                      JList(fallback_intents(lower(chat.query)))
        /\ Answered =>
               chat.answer = _generate_fallback_response(chat.context)

\* without a backend a request was answered from a context with hits
C27_Witness ==
    /\ ~llm_available
    /\ Answered
    /\ NonEmptySources # {}
    /\ chat.answer.parts # <<>>

\* C28: retrieve_context leaves the QueryIntent it was given as it was:
\* intents, product_filters and knowledge_filters after the call are
\* those classification returned
C28_RetrieveLeavesIntent ==
    chat.pc \in {"gathering", "retrieved"} \/ Answered =>
        chat.intent = chat.classified.intent

\* the source each intent label is retrieved into
LabelSource ==
    [product_search |-> "products", tax_question |-> "tax_docs",
     contract_help |-> "contract_docs", supplier_info |-> "suppliers",
     platform_help |-> "guides"]

\* the sources of the labels present in the intents
SourcesOf(intents) ==
    {LabelSource[label] :
        label \in {l \in DOMAIN LabelSource : HasIntent(intents, l)}}

\* C29: retrieve_context returns only when every task it created has
\* completed, and the mapping it returns has one key for the source of
\* each intent label present, none when general is the only intent
C29_ReturnsAfterAllTasks ==
    [][chat.pc # "retrieved" /\ chat'.pc = "retrieved"
       => /\ DOMAIN chat.results = DOMAIN chat'.tasks
          /\ DOMAIN chat'.context = SourcesOf(chat.classified.intent.intents)
          /\ chat.classified.intent.intents = JList(<<"general">>)
                 => chat'.context = <<>>]_vars

\* two tasks were created, both completed, and the call returned
C29_Witness ==
    /\ chat.pc = "retrieved"
    /\ Cardinality(DOMAIN chat.tasks) >= 2
    /\ DOMAIN chat.context = DOMAIN chat.tasks

\* C30: when generate_response returned, /generate answers with status
\* 200 and the result, not with HTTP 500
C30_ReturnedMeansSuccess ==
    Answered => chat.status = 200

\* =========================================================== ingestion
\* the bound on the documents the knowledge base holds
MaxDocuments == 5

\* the longest list of a bulk request
MaxBulk == 2

\* EmbeddingService.embed_text raises ValueError for an empty or blank text
EmbedRaises(text) == IsBlank(text)

\* ProductIngestRequest: name and description are the text that is
\* embedded; a category of None is ""
ProductRequests ==
    [product_id : {42, 45},
     sku : {"D"},
     name : {<<"t", "a", "x">>, <<"k", "i", "t">>},
     supplier_id : {55},
     category : {""}]
    \cup [product_id : {45}, sku : {"D"}, name : {<<"k", "i", "t">>},
          supplier_id : {56}, category : {"toys"}]

\* DocumentIngestRequest; a region of None is ""
DocumentRequests ==
    [text : {<<" ">>, <<"t", "a", "x">>, <<"k", "i", "t">>},
     doc_type : {"tax"}, region : {"VN"}]
    \cup [text : {<<>>, <<"k", "i", "t">>},
          doc_type : {"guide"}, region : {""}]

\* lines 91 and 141: f"{name}. {description}"
text_to_embed(request) == request.name \o <<".", " ">>

\* lines 97-104 and 144-151: the point built for a product
ProductPoint(request) ==
    [vector |-> embed_text(text_to_embed(request)),
     sku |-> request.sku,
     product_id |-> request.product_id,
     category |-> IF request.category = "" THEN "uncategorized"
                  ELSE request.category,
     supplier_id |-> request.supplier_id]

\* lines 193-199: the point built for a document
DocumentPoint(request) ==
    [vector |-> embed_text(request.text),
     doc_type |-> request.doc_type,
     region |-> IF request.region = "" THEN "global" ELSE request.region]

\* upsert_product: the point of that id is inserted or replaced
upsert_product(catalog, product_id, point) == Put(catalog, product_id, point)

\* delete_product: the point of that id is removed, if there is one
delete_product(catalog, product_id) ==
    [id \in DOMAIN catalog \ {product_id} |-> catalog[id]]

\* upsert_document: the point is inserted under a fresh id (uuid4)
upsert_document(knowledge, point) ==
    Put(knowledge, Cardinality(DOMAIN knowledge) + 1, point)

IngestResponse(op, success, ingested_count, writes, failed_writes) ==
    [op |-> op, outcome |-> IF success THEN "success" ELSE "error",
     ingested_count |-> ingested_count,
     writes |-> writes, failed_writes |-> failed_writes]

\* an HTTPException with status 500 is raised to the caller
HTTPError(op, writes, failed_writes) ==
    IngestResponse(op, FALSE, 0, writes, failed_writes)

\* ingest.py lines 87-125: embed, upsert, answer; any exception becomes
\* HTTP 500
IngestProduct(request, raises) ==
    /\ IF EmbedRaises(text_to_embed(request))
       THEN /\ ~raises
            /\ ingest' = HTTPError("ingest_product", 0, 0)
            /\ UNCHANGED product_catalog
       ELSE IF raises
       THEN /\ ingest' = HTTPError("ingest_product", 1, 1)
            /\ UNCHANGED product_catalog
       ELSE /\ product_catalog' =
                   upsert_product(product_catalog, request.product_id,
                                  ProductPoint(request))
            /\ ingest' = IngestResponse("ingest_product", TRUE, 1, 1, 0)
    /\ UNCHANGED <<knowledge_base, trackVars, chatVars, recommendVars>>

\* ingest.py lines 139-162: the products are taken in order; an exception
\* for one of them is logged and the loop continues.  The result is the
\* catalog and the count after the first n products
RECURSIVE BulkLoop(_, _, _)
BulkLoop(products, raises, n) ==
    IF n = 0
    THEN [catalog |-> product_catalog, ingested_count |-> 0,
          failed_writes |-> 0]
    ELSE LET before == BulkLoop(products, raises, n - 1)
         IN  IF raises[n]
             THEN [before EXCEPT !.failed_writes = @ + 1]
             ELSE [before EXCEPT
                      !.catalog = upsert_product(@, products[n].product_id,
                                                 ProductPoint(products[n])),
                      !.ingested_count = @ + 1]

\* ingest.py lines 164-169: the answer after the loop
ingest_products_bulk(after, writes) ==
    IngestResponse("ingest_products_bulk", TRUE, after.ingested_count,
                   writes, after.failed_writes)

\* ingest.py lines 135-176
IngestProductsBulk(products, raises) ==
    LET after == BulkLoop(products, raises, Len(products))
    IN  /\ product_catalog' = after.catalog
        /\ ingest' = ingest_products_bulk(after, Len(products))
        /\ UNCHANGED <<knowledge_base, trackVars, chatVars, recommendVars>>

\* ingest.py lines 186-218
IngestDocument(request, raises) ==
    /\ Cardinality(DOMAIN knowledge_base) < MaxDocuments
    /\ IF EmbedRaises(request.text)
       THEN /\ ~raises
            /\ ingest' = HTTPError("ingest_document", 0, 0)
            /\ UNCHANGED knowledge_base
       ELSE IF raises
       THEN /\ ingest' = HTTPError("ingest_document", 1, 1)
            /\ UNCHANGED knowledge_base
       ELSE /\ knowledge_base' =
                   upsert_document(knowledge_base, DocumentPoint(request))
            /\ ingest' = IngestResponse("ingest_document", TRUE, 1, 1, 0)
    /\ UNCHANGED <<product_catalog, trackVars, chatVars, recommendVars>>

\* ingest.py lines 229-241
DeleteProduct(product_id, raises) ==
    /\ IF raises
       THEN /\ ingest' = HTTPError("delete_product", 1, 1)
            /\ UNCHANGED product_catalog
       ELSE /\ product_catalog' = delete_product(product_catalog, product_id)
            /\ ingest' = IngestResponse("delete_product", TRUE, 0, 1, 0)
    /\ UNCHANGED <<knowledge_base, trackVars, chatVars, recommendVars>>

IngestInit ==
    /\ product_catalog = InitialCatalog
    /\ knowledge_base = InitialKnowledge
    /\ user_vectors = [u \in UserIds |-> None]
    /\ calls = [c \in Calls |-> IdleCall]
    /\ events = 0
    /\ faults = 0
    /\ llm_available = FALSE
    /\ chat = IdleRequest
    /\ ingest = IdleIngest
    /\ recommend = IdleRecommend

\* the lists of a bulk request: up to MaxBulk of the requests named kit
BulkRequests ==
    UNION {[1..n -> {r \in ProductRequests : r.name = <<"k", "i", "t">>}] :
              n \in 0..MaxBulk}

IngestNext ==
    \/ \E request \in ProductRequests, raises \in BOOLEAN :
          IngestProduct(request, raises)
    \/ \E products \in BulkRequests :
          \E raises \in [1..Len(products) -> BOOLEAN] :
              IngestProductsBulk(products, raises)
    \/ \E request \in DocumentRequests, raises \in BOOLEAN :
          IngestDocument(request, raises)
    \/ \E product_id \in {42, 44, 99}, raises \in BOOLEAN :
          DeleteProduct(product_id, raises)

SpecIngest == IngestInit /\ [][IngestNext]_vars

\* ------------------------------------------------ properties: ingestion
\* C19: a request during which an upsert or a delete on the index failed
\* ends with an error to its caller and does not report success
C19_FailedWriteIsReported ==
    ingest.failed_writes > 0 => ingest.outcome = "error"

\* ====================================================== recommendations
\* the largest limit a request asks for
MaxLimit == 3

\* recommendation_service.py line 239
NeutralScore == 50

\* hit.score of Distance.COSINE in hundredths; 0 when either vector is zero
Score(query_vector, vector) ==
    IF query_vector = ZeroVector \/ vector = ZeroVector THEN 0
    ELSE RoundDiv(100 * Dot(query_vector, vector),
                  Norm(query_vector) * Norm(vector))

\* qdrant_service.py lines 169-176: the dict of a hit, as far as the
\* recommendations read it
Hit(id, query_vector) ==
    [product_id |-> product_catalog[id].product_id,
     score |-> Score(query_vector, product_catalog[id].vector)]

Hits(answer, query_vector) ==
    [i \in 1..Len(answer) |-> Hit(answer[i], query_vector)]

\* a list cut at n entries: xs[:n]
Take(xs, n) == SubSeq(xs, 1, Min(n, Len(xs)))

ProductIdsOf(recommendations) ==
    {recommendations[i].product_id : i \in 1..Len(recommendations)}

_get_default_recommendations_index_score(raises, answer) ==
    IF raises THEN <<>> ELSE Hits(answer, ZeroVector)

\* lines 224-246: the hits of the search with the zero vector, each with
\* the neutral score; [] when the search raised
_get_default_recommendations(raises, answer) ==
    IF raises THEN <<>>
    ELSE [i \in 1..Len(answer) |->
             [Hit(answer[i], ZeroVector) EXCEPT !.score = NeutralScore]]

\* lines 112-139: the vector the search is made with, the zero vector of
\* the default policy when get_user_vector gave None
UserQueryVector(user_vector) ==
    IF user_vector = None THEN ZeroVector ELSE user_vector

get_user_recommendations(user_vector, raises, answer) ==
    IF user_vector = None
    THEN [outcome |-> "returned", branch |-> "cold_start",
          result |-> _get_default_recommendations(raises, answer)]
    ELSE IF raises
    THEN [outcome |-> "raised", branch |-> "personalized", result |-> <<>>]
    ELSE [outcome |-> "returned", branch |-> "personalized",
          result |-> Hits(answer, user_vector)]

get_similar_products_unfiltered(product_id, limit, product_vector, raises, answer) ==
    IF product_vector = None THEN [outcome |-> "returned", result |-> <<>>]
    ELSE IF raises THEN [outcome |-> "raised", result |-> <<>>]
    ELSE [outcome |-> "returned",
          result |-> Take(Hits(answer, product_vector), limit)]

\* lines 149-179: answer is the index's answer to the search with limit + 1
get_similar_products(product_id, limit, product_vector, raises, answer) ==
    IF product_vector = None THEN [outcome |-> "returned", result |-> <<>>]
    ELSE IF raises THEN [outcome |-> "raised", result |-> <<>>]
    ELSE [outcome |-> "returned",
          result |-> Take(SelectSeq(Hits(answer, product_vector),
                                    LAMBDA r : r.product_id # product_id),
                          limit)]

RECURSIVE MergeToKeepingDuplicates(_, _, _)
MergeToKeepingDuplicates(user_recommendations, default_recs, n) ==
    IF n = 0 THEN user_recommendations
    ELSE Append(MergeToKeepingDuplicates(user_recommendations, default_recs,
                                         n - 1), default_recs[n])

\* lines 202-206: the list after the first n default recommendations;
\* seen_ids is the set of the product ids in it
RECURSIVE MergeTo(_, _, _)
MergeTo(user_recommendations, default_recs, n) ==
    IF n = 0 THEN user_recommendations
    ELSE LET before == MergeTo(user_recommendations, default_recs, n - 1)
             rec == default_recs[n]
         IN  IF rec.product_id \notin ProductIdsOf(before)
             THEN Append(before, rec)
             ELSE before

MergeDefaultsFirst(user_recommendations, default_recs) ==
    MergeTo(default_recs, user_recommendations, Len(user_recommendations))

Merge(user_recommendations, default_recs) ==
    MergeTo(user_recommendations, default_recs, Len(default_recs))

\* what a call of search_products hands back: one of the index's answers,
\* none (read as []) when the call raised or was never made
Answers(made, query_vector, limit) ==
    IF made THEN search_products(query_vector, limit, <<>>) ELSE {<<>>}

\* a request starts when none is being served
RecommendFree == recommend.pc \in {"idle", "done"}

\* api/recommend.py lines 102-130 over lines 112-139
GetUserRecommendations(user_id, limit, read_raises, raises) ==
    /\ RecommendFree
    /\ LET user_vector == get_user_vector(user_id, read_raises)
           query_vector == UserQueryVector(user_vector)
       IN  \E answer \in Answers(~raises, query_vector, limit) :
               LET r == get_user_recommendations(user_vector, raises, answer)
               IN  recommend' =
                       [IdleRecommend EXCEPT
                           !.pc = "done",
                           !.op = "get_user_recommendations",
                           !.user_id = user_id, !.limit = limit,
                           !.result = r.result, !.outcome = r.outcome,
                           !.stored = user_vectors[user_id] # None,
                           !.branch = r.branch]
    /\ UNCHANGED <<indexVars, trackVars, chatVars, ingestVars>>

\* api/recommend.py lines 133-161 over lines 149-179
GetSimilarProducts(product_id, limit, read_raises, raises) ==
    /\ RecommendFree
    /\ LET product_vector == get_product_vector(product_id, read_raises)
           query_vector == UserQueryVector(product_vector)
       IN  \E answer \in Answers(product_vector # None /\ ~raises,
                                  query_vector, limit + 1) :
               LET r == get_similar_products(product_id, limit,
                                             product_vector, raises, answer)
               IN  recommend' =
                       [IdleRecommend EXCEPT
                           !.pc = "done",
                           !.op = "get_similar_products",
                           !.product_id = product_id, !.limit = limit,
                           !.result = r.result, !.outcome = r.outcome,
                           !.hits = IF product_vector = None \/ raises
                                    THEN <<>>
                                    ELSE Hits(answer, product_vector)]
    /\ UNCHANGED <<indexVars, trackVars, chatVars, ingestVars>>

\* lines 189-199: the user-based recommendations are fetched; enough of
\* them are returned at once, fewer are kept to be supplemented
HomepageStart(user_id, limit, read_raises, raises) ==
    /\ RecommendFree
    /\ LET user_vector == get_user_vector(user_id, read_raises)
           query_vector == UserQueryVector(user_vector)
       IN  \E answer \in Answers(~raises, query_vector, limit) :
               LET r == get_user_recommendations(user_vector, raises, answer)
                   request == [IdleRecommend EXCEPT
                                  !.op = "get_homepage_recommendations",
                                  !.user_id = user_id, !.limit = limit,
                                  !.stored = user_vectors[user_id] # None,
                                  !.branch = r.branch]
               IN  recommend' =
                       IF r.outcome = "raised"
                       THEN [request EXCEPT !.pc = "done",
                                            !.outcome = "raised"]
                       ELSE IF Len(r.result) >= limit
                       THEN [request EXCEPT
                                !.pc = "done", !.outcome = "returned",
                                !.user_recommendations = r.result,
                                !.result = Take(r.result, limit)]
                       ELSE [request EXCEPT
                                !.pc = "padding",
                                !.user_recommendations = r.result]
    /\ UNCHANGED <<indexVars, trackVars, chatVars, ingestVars>>

\* lines 198-208: the default recommendations are fetched and merged in
HomepagePad(raises) ==
    /\ recommend.pc = "padding"
    /\ LET needed == recommend.limit - Len(recommend.user_recommendations)
       IN  \E answer \in Answers(~raises, ZeroVector, needed) :
               LET default_recs ==
                       _get_default_recommendations(raises, answer)
               IN  recommend' =
                       [recommend EXCEPT
                           !.pc = "done", !.outcome = "returned",
                           !.defaults = default_recs,
                           !.result =
                               Take(Merge(recommend.user_recommendations,
                                          default_recs), recommend.limit)]
    /\ UNCHANGED <<indexVars, trackVars, chatVars, ingestVars>>

\* the catalogs a recommendation request may find: the one ingested or a
\* single product; user 7 has a stored vector, user 999 has none
CatalogsAtStart ==
    {InitialCatalog, [id \in {42} |-> InitialCatalog[id]]}

RecommendInit ==
    /\ product_catalog \in CatalogsAtStart
    /\ knowledge_base = InitialKnowledge
    /\ user_vectors = (7 :> InitialCatalog[42].vector) @@ (999 :> None)
    /\ calls = [c \in Calls |-> IdleCall]
    /\ events = 0
    /\ faults = 0
    /\ llm_available = FALSE
    /\ chat = IdleRequest
    /\ ingest = IdleIngest
    /\ recommend = IdleRecommend

Limits == 1..MaxLimit

\* products are ingested while recommendations are served
RecommendNext ==
    \/ \E user_id \in UserIds, limit \in Limits, r, s \in BOOLEAN :
          GetUserRecommendations(user_id, limit, r, s)
    \/ \E product_id \in {42, 43, 99}, limit \in Limits, r, s \in BOOLEAN :
          GetSimilarProducts(product_id, limit, r, s)
    \/ \E user_id \in UserIds, limit \in Limits, r, s \in BOOLEAN :
          HomepageStart(user_id, limit, r, s)
    \/ \E raises \in BOOLEAN : HomepagePad(raises)
    \/ \E request \in {r \in ProductRequests :
                            /\ r.product_id = 45
                            /\ r.category = ""
                            /\ r.name = <<"k", "i", "t">>} :
          IngestProduct(request, FALSE)

SpecRecommend == RecommendInit /\ [][RecommendNext]_vars

\* ------------------------------------------ properties: recommendations
Served(op) == recommend.pc = "done" /\ recommend.op = op

\* C21: the list get_similar_products returns never holds the product it
\* was asked about, and never more than limit entries
C21_SimilarExcludesQueryItem ==
    Served("get_similar_products") =>
        /\ recommend.product_id \notin ProductIdsOf(recommend.result)
        /\ Len(recommend.result) <= recommend.limit

\* the index answered with the product itself among its limit + 1
\* neighbours, and limit others were returned
C21_Witness ==
    /\ Served("get_similar_products")
    /\ recommend.outcome = "returned"
    /\ recommend.product_id \in ProductIdsOf(recommend.hits)
    /\ Len(recommend.hits) = recommend.limit + 1
    /\ Len(recommend.result) = recommend.limit

ReturnedTo(op) == Served(op) /\ recommend.outcome = "returned"

\* some default recommendation was of a product the user-based list held
Overlap ==
    ProductIdsOf(recommend.defaults)
        \cap ProductIdsOf(recommend.user_recommendations) # {}

\* C22: the list get_homepage_recommendations returns holds no product
\* twice, whatever the user-based and the default lists share
C22_HomepageNoDuplicates ==
    ReturnedTo("get_homepage_recommendations") =>
        Cardinality(ProductIdsOf(recommend.result)) = Len(recommend.result)

\* cold start: the user-based list is itself a default list, the padding
\* list repeats one of its products and brings a new one
C22_Witness ==
    /\ ReturnedTo("get_homepage_recommendations")
    /\ recommend.branch = "cold_start"
    /\ Overlap
    /\ Len(recommend.result) > Len(recommend.user_recommendations)

\* C23: the homepage list starts with the user-based recommendations in
\* their order, goes on only with default recommendations of products not
\* among them, and has at most limit entries
C23_UserFirstThenNewDefaults ==
    ReturnedTo("get_homepage_recommendations") =>
        LET user == recommend.user_recommendations
            result == recommend.result
            kept == Min(Len(user), recommend.limit)
        IN  /\ Len(result) <= recommend.limit
            /\ Len(result) >= kept
            /\ SubSeq(result, 1, kept) = SubSeq(user, 1, kept)
            /\ \A i \in (kept + 1)..Len(result) :
                   /\ \E j \in 1..Len(recommend.defaults) :
                          result[i] = recommend.defaults[j]
                   /\ result[i].product_id \notin ProductIdsOf(user)

\* a user with a stored vector got fewer hits than limit; of the default
\* list one entry was already there and one was appended
C23_Witness ==
    /\ ReturnedTo("get_homepage_recommendations")
    /\ recommend.branch = "personalized"
    /\ recommend.user_recommendations # <<>>
    /\ Overlap
    /\ Len(recommend.result) > Len(recommend.user_recommendations)

\* the ids of a list of recommendations, in its order
IdsOf(recommendations) ==
    [i \in 1..Len(recommendations) |-> recommendations[i].product_id]

\* the lists of ids a default ranking of limit products may be: an answer
\* of the index to the zero vector, or none when that search failed
DefaultRankings(limit) ==
    {[i \in 1..Len(answer) |-> product_catalog[answer[i]].product_id] :
        answer \in search_products(ZeroVector, limit, <<>>)} \cup {<<>>}

\* C24: for a user with no stored vector get_user_recommendations returns
\* a default ranking, same ids in the same order, and every entry has the
\* neutral score
C24_ColdStartIsDefault ==
    [][(/\ recommend' # recommend
        /\ recommend'.pc = "done"
        /\ recommend'.op = "get_user_recommendations"
        /\ ~recommend'.stored)
       => /\ recommend'.outcome = "returned"
          /\ IdsOf(recommend'.result) \in DefaultRankings(recommend'.limit)
          /\ \A i \in 1..Len(recommend'.result) :
                 recommend'.result[i].score = NeutralScore]_vars

\* user 999 was served limit products of a catalog that holds more
C24_Witness ==
    /\ ReturnedTo("get_user_recommendations")
    /\ ~recommend.stored
    /\ recommend.user_id = 999
    /\ Len(recommend.result) = recommend.limit
    /\ Cardinality(DOMAIN product_catalog) > recommend.limit

\* C25: the default ranking is what get_user_recommendations returns only
\* for a user without a stored vector; with a stored vector the answer is
\* the similarity search of that vector, or an error
C25_StoredVectorNeverDefault ==
    Served("get_user_recommendations") /\ recommend.stored =>
        recommend.branch = "personalized"

\* =========================================== the three collections as one
\* ingests and interactions are served one after the other against the
\* same index: products and documents are written by the ingest endpoints,
\* user vectors by track_interaction
StoreNext ==
    \/ \E p \in {42, 45}, a \in Actions :
          ResolveProduct(1, 7, p, "", a, FALSE, FALSE, FALSE)
    \/ GetUserVector(1)
    \/ UpsertUserVector(1)
    \/ \E request \in {r \in ProductRequests : r.product_id = 45},
          raises \in BOOLEAN :
          IngestProduct(request, raises)
    \/ \E request \in DocumentRequests, raises \in BOOLEAN :
          IngestDocument(request, raises)

SpecStore == TrackInit /\ [][StoreNext]_vars

\* the vectors the three collections hold
StoredVectors ==
    {product_catalog[id].vector : id \in DOMAIN product_catalog}
        \cup {knowledge_base[id].vector : id \in DOMAIN knowledge_base}
        \cup {user_vectors[u] : u \in {v \in UserIds : user_vectors[v] # None}}

\* C26: every vector stored in product_catalog, knowledge_base and
\* user_vectors has exactly Dim components, whatever was ingested and
\* tracked
C26_StoredVectorsHaveDim ==
    \A vector \in StoredVectors : Len(vector) = Dim

\* a product and a document were ingested and user 7's vector is the
\* result of a decay update
C26_Witness ==
    /\ 45 \in DOMAIN product_catalog
    /\ Cardinality(DOMAIN knowledge_base) > Cardinality(DOMAIN InitialKnowledge)
    /\ calls[1].outcome = "returned"
    /\ calls[1].branch = "decay"
    /\ calls[1].upserts = 1
    /\ user_vectors[7] # None

====
